---------------------------- MODULE Spec2Model ----------------------------
(***************************************************************************)
(* Model of utils/spatial_transform.py: the similarity-transform spatial   *)
(* transformer (SpatialTransformer, spatial_transformer, expand_z_where,   *)
(* invert_z_where) and the bounding-box renderer (add_bounding_box,        *)
(* add_bounding_boxes, batch_add_bounding_boxes).                          *)
(*                                                                         *)
(* Real-valued quantities (pose components, normalised coordinates,        *)
(* bilinear weights, pixel intensities) are exact rationals <<n, d>> in    *)
(* lowest terms with d > 0.  Floating-point rounding of float32 tensors is *)
(* not modelled: every statement about real arithmetic below is a          *)
(* statement about the exact value the code's formula denotes.             *)
(***************************************************************************)
EXTENDS Integers, Sequences, FiniteSets, TLC

(***************************************************************************)
(* Bounds of the model.                                                    *)
(***************************************************************************)
MaxNum == 2
MaxDen == 2
MaxEdge == 4

(***************************************************************************)
(* Exact rational arithmetic.                                              *)
(***************************************************************************)
Abs(a) == IF a < 0 THEN -a ELSE a

RECURSIVE GCD(_, _)
GCD(a, b) == IF b = 0 THEN a ELSE GCD(b, a % b)

Rat(n, d) ==
    LET sn == IF d < 0 THEN -n ELSE n
        sd == Abs(d)
        g  == GCD(Abs(sn), sd)
    IN  <<sn \div g, sd \div g>>

RInt(k) == <<k, 1>>
RZero == RInt(0)
ROne == RInt(1)
RAdd(p, q) == Rat(p[1] * q[2] + q[1] * p[2], p[2] * q[2])
RNeg(p) == <<-p[1], p[2]>>
RSub(p, q) == RAdd(p, RNeg(q))
RMul(p, q) == Rat(p[1] * q[1], p[2] * q[2])
\* Division; the divisor is nonzero wherever this is used.
RDiv(p, q) == Rat(p[1] * q[2], p[2] * q[1])
RLe(p, q) == p[1] * q[2] <= q[1] * p[2]
RLt(p, q) == p[1] * q[2] < q[1] * p[2]
RIsInt(p) == p[2] = 1
RFloor(p) == p[1] \div p[2]

\* Python's round(t) for a float / numpy scalar: nearest integer, ties to even.
PyRound(p) ==
    LET f == RFloor(p)
        twice == 2 * (p[1] - f * p[2])      \* 2 * fractional part * denominator
    IN  IF twice < p[2] THEN f
        ELSE IF twice > p[2] THEN f + 1
        ELSE IF f % 2 = 0 THEN f ELSE f + 1

Min(a, b) == IF a <= b THEN a ELSE b
Max(a, b) == IF a >= b THEN a ELSE b

(***************************************************************************)
(* Poses.  A pose row is <<s, x, y>>; a z_where tensor of shape (B, 3) is  *)
(* a sequence of B rows.                                                   *)
(***************************************************************************)

\* expand_z_where: [s, x, y] -> [[s, 0, x], [0, s, y]] per batch row, by
\* prepending a zero column and selecting columns [1, 0, 2, 0, 1, 3].
expand_z_where(z_where) ==
    [b \in DOMAIN z_where |->
        LET row == <<RZero>> \o z_where[b]      \* torch.cat((zeros, z_where), dim=1)
            sel == <<1, 0, 2, 0, 1, 3>>          \* expansion_indices
            flat == [k \in 1..6 |-> row[sel[k] + 1]]
        IN  << <<flat[1], flat[2], flat[3]>>, <<flat[4], flat[5], flat[6]>> >>]

\* A mis-signed inverse translation (x/s instead of -x/s).
invert_z_where_unsigned(z_where) ==
    [b \in DOMAIN z_where |->
        LET scale == z_where[b][1]
        IN  <<RDiv(ROne, scale), RDiv(z_where[b][2], scale), RDiv(z_where[b][3], scale)>>]

\* invert_z_where: (s, x, y) -> (1/s, -x/s, -y/s) per batch row.
invert_z_where(z_where) ==
    [b \in DOMAIN z_where |->
        LET scale == z_where[b][1]
        IN  <<RDiv(ROne, scale),
              RDiv(RNeg(z_where[b][2]), scale),
              RDiv(RNeg(z_where[b][3]), scale)>>]

\* The affine map of one 2x3 matrix theta applied to the homogeneous point
\* (cx, cy, 1), as affine_grid does for every base-grid point.
AffineApply(theta, pt) ==
    LET h == <<pt[1], pt[2], ROne>>
        dot(r) == RAdd(RAdd(RMul(theta[r][1], h[1]), RMul(theta[r][2], h[2])),
                       RMul(theta[r][3], h[3]))
    IN  <<dot(1), dot(2)>>


\* to_np(z_where).flatten() of a pose tensor given as a sequence of rows.
RECURSIVE Flatten(_)
Flatten(rows) == IF rows = <<>> THEN <<>> ELSE Head(rows) \o Flatten(Tail(rows))

\* sorted((a, b)) of two numbers.
Sorted2(a, b) == IF RLe(a, b) THEN <<a, b>> ELSE <<b, a>>

\* int(round(t)) applied to each coordinate.
RoundCoord(t) == PyRound(t)

\* add_bounding_box._bounding_box(z_where, x_size, rounded, margin).  With
\* s = 0 the divisions give inf/NaN and int(round(.)) raises.
bounding_box(z_where, x_size, rounded, margin) ==
    LET flat == Flatten(z_where)
    IN  IF Len(flat) # 3 THEN [st |-> "error", err |-> "AssertionError"]
        ELSE IF flat[1] = RZero THEN [st |-> "error", err |-> "OverflowError"]
        ELSE
        LET s == flat[1]
            x == flat[2]
            y == flat[3]
            size == RInt(x_size)
            m == RInt(margin)
            two == RInt(2)
            w == RDiv(size, s)
            h == RDiv(size, s)
            xtrans == RDiv(RMul(RDiv(RNeg(x), s), size), two)
            ytrans == RDiv(RMul(RDiv(RNeg(y), s), size), two)
            x1 == RSub(RAdd(RDiv(RSub(size, w), two), xtrans), m)
            y1 == RSub(RAdd(RDiv(RSub(size, h), two), ytrans), m)
            x2 == RAdd(RAdd(x1, w), RMul(two, m))
            y2 == RAdd(RAdd(y1, h), RMul(two, m))
            xs == Sorted2(x1, x2)
            ys == Sorted2(y1, y2)
            coords == <<xs[1], xs[2], ys[1], ys[2]>>
        IN  [st |-> "ok",
             val |-> IF rounded THEN [k \in 1..4 |-> RoundCoord(coords[k])]
                     ELSE coords]

(***************************************************************************)
(* Image tensors.  A tensor of shape (B, C, H, W) is a sequence over the   *)
(* batch of sequences over the channels of planes; a plane is a sequence   *)
(* of H rows of W values.  Code indices are 0-based, sequences 1-based.    *)
(***************************************************************************)
Size0(x) == Len(x)

\* Base-grid coordinate of pixel index p on an axis of n pixels under
\* align_corners=False: linspace(-1, 1, n) * (n - 1) / n = (2p + 1)/n - 1.
BaseCoord(p, n) == RSub(Rat(2 * p + 1, n), ROne)

\* An affine_grid that reuses the first matrix for every batch row instead of
\* rejecting a theta whose batch size differs from N.
affine_grid_broadcast(theta, grid_shape) ==
    [st |-> "ok",
     val |-> [n \in 1..grid_shape[1] |-> [i \in 1..grid_shape[3] |->
                [j \in 1..grid_shape[4] |->
                    AffineApply(theta[1], <<BaseCoord(j - 1, grid_shape[4]),
                                            BaseCoord(i - 1, grid_shape[3])>>)]]]]

\* F.affine_grid(theta, (N, C, H, W), align_corners=False): one (u, v) pair
\* per batch row and output pixel; theta must be a batch of N 2x3 matrices.
affine_grid(theta, grid_shape) ==
    LET N == grid_shape[1]
        H == grid_shape[3]
        W == grid_shape[4]
    IN  IF Len(theta) # N
        THEN [st |-> "error", err |-> "RuntimeError"]
        ELSE [st |-> "ok",
              val |-> [n \in 1..N |-> [i \in 1..H |-> [j \in 1..W |->
                          AffineApply(theta[n],
                                      <<BaseCoord(j - 1, W), BaseCoord(i - 1, H)>>)]]]]

\* One tap of the bilinear stencil with padding_mode='zeros'.
Tap(plane, r, c) ==
    IF r >= 0 /\ r < Len(plane) /\ c >= 0 /\ c < Len(plane[1])
    THEN plane[r + 1][c + 1]
    ELSE RZero

\* Un-normalisation of a grid coordinate under align_corners=False:
\* ((u + 1) * n - 1) / 2.
Unnormalize(u, n) == RDiv(RSub(RMul(RAdd(u, ROne), RInt(n)), ROne), RInt(2))

\* Bilinear sample of one plane at normalised (u, v).
SampleBilinear(plane, uv) ==
    LET ix == Unnormalize(uv[1], Len(plane[1]))
        iy == Unnormalize(uv[2], Len(plane))
        x0 == RFloor(ix)
        y0 == RFloor(iy)
        wx1 == RSub(ix, RInt(x0))            \* weight of column x0 + 1
        wx0 == RSub(ROne, wx1)
        wy1 == RSub(iy, RInt(y0))
        wy0 == RSub(ROne, wy1)
    IN  RAdd(RAdd(RMul(Tap(plane, y0, x0), RMul(wy0, wx0)),
                  RMul(Tap(plane, y0, x0 + 1), RMul(wy0, wx1))),
             RAdd(RMul(Tap(plane, y0 + 1, x0), RMul(wy1, wx0)),
                  RMul(Tap(plane, y0 + 1, x0 + 1), RMul(wy1, wx1))))

\* F.grid_sample(x, grid, align_corners=False): mode='bilinear',
\* padding_mode='zeros' by default.
grid_sample(x, grid) ==
    IF Len(grid) # Len(x)
    THEN [st |-> "error", err |-> "RuntimeError"]
    ELSE [st |-> "ok",
          val |-> [n \in 1..Len(x) |-> [c \in 1..Len(x[n]) |->
                    [i \in 1..Len(grid[n]) |-> [j \in 1..Len(grid[n][i]) |->
                        SampleBilinear(x[n][c], grid[n][i][j])]]]]]

\* spatial_transformer(x, z_where, out_shape).
spatial_transformer(x, z_where, out_shape) ==
    LET batch_sz == Size0(x)
        theta == expand_z_where(z_where)
        grid_shape == <<batch_sz, 1>> \o out_shape
        grid == affine_grid(theta, grid_shape)
    IN  IF grid.st = "error" THEN grid ELSE grid_sample(x, grid.val)

\* SpatialTransformer._transform(x, z_where, inverse) of a transformer
\* self = [input_shape, output_shape].  Inverting a pose with s = 0 divides
\* by zero: the tensor holds inf/NaN and the resampled values are not
\* modelled (st = "nonfinite").
SpatialTransformer_transform(self, x, z_where, inverse) ==
    IF inverse
    THEN IF \E b \in DOMAIN z_where : z_where[b][1] = RZero
         THEN [st |-> "nonfinite"]
         ELSE spatial_transformer(x, invert_z_where(z_where), self.input_shape)
    ELSE spatial_transformer(x, z_where, self.output_shape)

SpatialTransformer_forward(self, x, z_where) ==
    SpatialTransformer_transform(self, x, z_where, FALSE)

SpatialTransformer_inverse(self, x, z_where) ==
    SpatialTransformer_transform(self, x, z_where, TRUE)


(***************************************************************************)
(* Arrays of the box renderer.  An array is a record                       *)
(*   [id, kind, dev, rank, px]                                             *)
(* id names the storage (two arrays with one id share it), kind is         *)
(* "ndarray" or "tensor", dev is "cpu" or "cuda", and px holds the values: *)
(* px[c][r][col] for rank 3 (C, H, W) and px[n][c][r][col] for rank 4      *)
(* (N, C, H, W).  Images are square, as the renderer assumes (it takes the *)
(* canvas edge from shape[2] for both axes).                               *)
(***************************************************************************)
Shape(a) ==
    IF a.rank = 3
    THEN <<Len(a.px), Len(a.px[1]), Len(a.px[1][1])>>
    ELSE <<Len(a.px), Len(a.px[1]), Len(a.px[1][1]), Len(a.px[1][1][1])>>

Err(e) == [st |-> "error", err |-> e]
Ok(v) == [st |-> "ok", val |-> v]

\* img.cpu(): raises AttributeError on an ndarray (the caller passes on); a
\* CPU tensor is returned as it is, a CUDA tensor is copied to the host.
Cpu(a) ==
    IF a.kind = "tensor" /\ a.dev = "cuda"
    THEN [a EXCEPT !.id = a.id + 1, !.dev = "cpu"]
    ELSE a

\* boilr's to_np(x): x.detach().cpu().numpy() for a tensor (sharing the
\* storage of a CPU tensor), x itself for an ndarray.
to_np(a) == [Cpu(a) EXCEPT !.kind = "ndarray"]

\* ndarray.copy(): the same values in new storage.  A new id is one more
\* than the id copied from: ids only grow along a call, so the new storage
\* is shared with no array the caller holds.
Copy(a) == [a EXCEPT !.id = a.id + 1]

\* No widening: the channel list is returned as it is.
TileChannelsOnce(chans) == chans

\* np.tile / Tensor.repeat with 3 repetitions along the channel axis and 1
\* along the others, on the channel list of one image.
TileChannels(chans) == chans \o chans \o chans

\* The indices a Python slice start:stop selects on an axis of n entries
\* (start >= 0 here; a negative stop counts from the end).
SliceIndices(start, stop, n) ==
    LET lo == Min(start, n)
        hi == IF stop < 0 THEN Max(stop + n, 0) ELSE Min(stop, n)
    IN  {k \in 0..(n - 1) : lo <= k /\ k < hi}

\* Accumulating assignment (img[...] += color) in place of img[...] = color.
AssignAdd(chans, rows, cols, color) ==
    [c \in 1..Len(chans) |-> [r \in 1..Len(chans[c]) |->
        [k \in 1..Len(chans[c][r]) |->
            IF (r - 1) \in rows /\ (k - 1) \in cols
            THEN chans[c][r][k] + color[c] ELSE chans[c][r][k]]]]

\* img[0, :, rows, cols] = color with color of shape (3, 1): channel c of
\* every selected pixel becomes color[c].
Assign(chans, rows, cols, color) ==
    [c \in 1..Len(chans) |-> [r \in 1..Len(chans[c]) |->
        [k \in 1..Len(chans[c][r]) |->
            IF (r - 1) \in rows /\ (k - 1) \in cols
            THEN color[c] ELSE chans[c][r][k]]]]

\* The element of a one-element set.  Only({e(v) : v \in {x}}) evaluates x
\* once and binds v to its value.
Only(S) == CHOOSE v \in S : TRUE

\* The four border lines of add_bounding_box drawn on the channels of the
\* (1, 3, H, W) work copy: four slice assignments, each behind its range test.
DrawOutline(chans, box, color) ==
    LET x1 == box[1]
        x2 == box[2]
        y1 == box[3]
        y2 == box[4]
        n == Len(chans[1])                 \* img.shape[2]
        x_max == n - 1
        y_max == n - 1
        cols == SliceIndices(Max(x1, 0), Min(x2, x_max), n)
        rows == SliceIndices(Max(y1, 0), Min(y2, y_max), n)
    IN  Only({ Only({ Only({
            IF 0 <= x2 - 1 /\ x2 - 1 <= x_max
            THEN Assign(c, rows, {x2 - 1}, color) ELSE c
          : c \in {IF 0 <= x1 /\ x1 <= x_max
                   THEN Assign(b, rows, {x1}, color) ELSE b} })
          : b \in {IF 0 <= y2 - 1 /\ y2 - 1 <= y_max
                   THEN Assign(a, {y2 - 1}, cols, color) ELSE a} })
          : a \in {IF 0 <= y1 /\ y1 <= y_max
                   THEN Assign(chans, {y1}, cols, color) ELSE chans} })

\* The tail of add_bounding_box once the (1, 3, H, W) work copy exists: the
\* box, the drawing, the conversion back to the input's rank and type, and
\* the assertion on the output shape.
DrawOnCopy(img, work, chans, z_where, color) ==
    LET collapse_first == img.rank = 3
        target_shape == [Shape(img) EXCEPT ![IF collapse_first THEN 1 ELSE 2] = 3]
    IN  Only({ IF bb.st = "error" THEN bb
               ELSE Only({ IF Shape(out) # target_shape THEN Err("AssertionError")
                           ELSE Ok(out)
                         : out \in {[id |-> work.id,
                                     kind |-> IF img.kind = "tensor" THEN "tensor"
                                              ELSE "ndarray",
                                     dev |-> "cpu",
                                     rank |-> img.rank,
                                     px |-> IF collapse_first
                                            THEN DrawOutline(chans, bb.val, color)
                                            ELSE <<DrawOutline(chans, bb.val, color)>>]} })
             : bb \in {bounding_box(z_where, Len(chans[1]), TRUE, 1)} })

\* add_bounding_box(img, z_where, color); z_where is a sequence of pose rows.
add_bounding_box(img, z_where, color) ==
    Only({ IF Len(px4) # 1 THEN Err("AssertionError")
           ELSE Only({ IF Len(chans) # 3 THEN Err("AssertionError")
                       ELSE DrawOnCopy(img, Copy(to_np(img)), chans, z_where, color)
                     : chans \in {IF Len(px4[1]) = 1 THEN TileChannels(px4[1])
                                  ELSE px4[1]} })
         : px4 \in {IF img.rank = 3 THEN <<Copy(to_np(img)).px>>     \* np.expand_dims
                    ELSE Copy(to_np(img)).px} })

\* A pose array: [rank |-> 3, rows |-> <<r1, ..., rk>>] has shape (k, P, 3),
\* each r a sequence of P poses; [rank |-> 2, rows |-> r] has shape (P, 3).
ZShape(z) ==
    IF z.rank = 3
    THEN <<Len(z.rows), IF z.rows = <<>> THEN 0 ELSE Len(z.rows[1]), 3>>
    ELSE <<Len(z.rows), 3>>

\* z_wheres[i:i+1] of a 2-d pose array (0-based i): one row, or none.
RowSlice(rows, i) == IF i + 1 <= Len(rows) THEN <<rows[i + 1]>> ELSE <<>>

\* for i in range(n_obj): img = add_bounding_box(img, z_wheres[i:i+1], color)
RECURSIVE DrawLoop(_, _, _, _, _)
DrawLoop(img, rows, color, i, n_obj) ==
    IF i >= n_obj THEN Ok(img)
    ELSE Only({ IF r.st = "error" THEN r
                ELSE DrawLoop(r.val, rows, color, i + 1, n_obj)
              : r \in {add_bounding_box(img, RowSlice(rows, i), color)} })

\* The bound the code asserts on n_obj: z_wheres.shape[1], read before a 3-d
\* array is reduced to 2-d.
NObjLimit(z) == ZShape(z)[2]

\* The tail of add_bounding_boxes on the image the loop left: the widening
\* of a 1-channel image and the assertion on the output shape.
WidenAndCheck(im, target_shape, color_dim) ==
    Only({ IF Shape(out) # target_shape THEN Err("AssertionError") ELSE Ok(out)
         : out \in {IF Shape(im)[color_dim] = 1       \* happens when n_obj = 0
                    THEN [im EXCEPT
                            !.id = im.id + 1,
                            !.px = IF im.rank = 3 THEN TileChannels(im.px)
                                   ELSE [k \in 1..Len(im.px) |->
                                            TileChannels(im.px[k])]]
                    ELSE im} })

\* add_bounding_boxes(img, z_wheres, color, n_obj); n_obj is a rational.
add_bounding_boxes(img, z_wheres, color, n_obj) ==
    LET n == PyRound(n_obj)                            \* int(round(n_obj))
        host == Cpu(img)
        color_dim == IF host.rank = 3 THEN 1 ELSE 2
        target_shape == [Shape(host) EXCEPT ![color_dim] = 3]
    IN  IF ~(n <= NObjLimit(z_wheres)) THEN Err("AssertionError")
        ELSE IF z_wheres.rank = 3 /\ Len(z_wheres.rows) # 1 THEN Err("AssertionError")
        ELSE Only({ IF looped.st = "error" THEN looped
                    ELSE WidenAndCheck(looped.val, target_shape, color_dim)
                  : looped \in {DrawLoop(host,
                                         IF z_wheres.rank = 3 THEN z_wheres.rows[1]
                                         ELSE z_wheres.rows,
                                         color, 0, n)} })

\* The results of add_bounding_boxes on images 0 .. n_img - 1 of the batch,
\* up to the first error.
RECURSIVE BatchLoop(_, _, _, _, _, _)
BatchLoop(imgs, z_wheres, color, n_obj, j, n_img) ==
    IF j >= n_img THEN Ok(<<>>)
    ELSE IF j >= Len(imgs.px) \/ j >= Len(n_obj) THEN Err("IndexError")
    ELSE Only({ IF r.st = "error" THEN r
                ELSE Only({ IF rest.st = "error" THEN rest
                            ELSE Ok(<<r.val>> \o rest.val)
                          : rest \in {BatchLoop(imgs, z_wheres, color, n_obj,
                                                j + 1, n_img)} })
              : r \in {add_bounding_boxes(
                          [imgs EXCEPT !.rank = 3, !.px = imgs.px[j + 1]],  \* imgs[j]
                          [rank |-> 2, rows |-> z_wheres.rows[j + 1]],     \* z_wheres[j]
                          color, n_obj[j + 1])} })

DefaultColor == <<1, 0, 0>>

\* torch.stack of the per-image results and the assertion on its shape.
StackAndCheck(imgs, parts, target_shape) ==
    IF \E k \in DOMAIN parts : parts[k].kind # "tensor"
    THEN Err("TypeError")                        \* torch.stack of ndarrays
    ELSE Only({ IF Shape(out) # target_shape THEN Err("AssertionError") ELSE Ok(out)
              : out \in {[id |-> imgs.id + 1, kind |-> "tensor", dev |-> "cpu",
                          rank |-> 4,
                          px |-> [k \in DOMAIN parts |-> parts[k].px]]} })

\* batch_add_bounding_boxes(imgs, z_wheres, n_obj) with color=None and
\* n_img=None; imgs is a rank-4 array, z_wheres a rank-3 pose array, n_obj a
\* sequence of rationals.
batch_add_bounding_boxes(imgs, z_wheres, n_obj) ==
    IF \/ imgs.rank # 4
       \/ Shape(imgs)[2] \notin {1, 3}
       \/ z_wheres.rank # 3
       \/ ZShape(z_wheres)[1] # Shape(imgs)[1]
    THEN Err("AssertionError")
    ELSE Only({ IF parts.st = "error" THEN parts
                ELSE StackAndCheck(imgs, parts.val, [Shape(imgs) EXCEPT ![2] = 3])
              : parts \in {BatchLoop(imgs, z_wheres, DefaultColor, n_obj, 0,
                                     Len(imgs.px))} })

(***************************************************************************)
(* State.  Three groups of variables, one per specification below.         *)
(***************************************************************************)
VARIABLES
    st,         \* SpecWarp: the SpatialTransformer [input_shape, output_shape]
    w_x,        \* SpecWarp: the object tensor (B, C, Hin, Win)
    w_z,        \* SpecWarp: the z_where tensor (Bz, 3)
    w_fwd,      \* SpecWarp: result of forward(w_x, w_z)
    w_inv,      \* SpecWarp: result of inverse(forward(w_x, w_z).val, w_z)
    p_z,        \* SpecPose: a z_where tensor of shape (1, 3)
    p_out,      \* SpecPose: the last call on p_z and what it returned
    b_img,      \* Spec: the image array the caller holds
    b_call,     \* Spec: the last renderer call and its arguments as passed
    b_out,      \* Spec: what that call returned
    b_calls,    \* Spec: how many times the call has been applied in a row
    b_written   \* Spec: whether the caller has written into the returned array

warp_vars == <<st, w_x, w_z, w_fwd, w_inv>>
pose_vars == <<p_z, p_out>>
box_vars == <<b_img, b_call, b_out, b_calls, b_written>>
vars == <<st, w_x, w_z, w_fwd, w_inv, p_z, p_out,
          b_img, b_call, b_out, b_calls, b_written>>

None == [st |-> "none"]

\* The variables of a specification that is not running.
IdleWarp ==
    /\ st = [input_shape |-> <<1, 1>>, output_shape |-> <<1, 1>>]
    /\ w_x = <<>> /\ w_z = <<>> /\ w_fwd = None /\ w_inv = None
IdlePose == p_z = <<>> /\ p_out = [op |-> "none"]
IdleBox ==
    /\ b_img = [id |-> 1, kind |-> "ndarray", dev |-> "cpu", rank |-> 3,
                px |-> <<<<<<0>>>>>>]
    /\ b_call = [op |-> "none"] /\ b_out = None /\ b_calls = 0 /\ b_written = FALSE

(***************************************************************************)
(* SpecWarp: an object is warped onto the canvas (forward) and the canvas  *)
(* is warped back to the object frame (inverse), as in _test.              *)
(***************************************************************************)
MaxInEdge == 2
MaxOutEdge == 4
MaxBatch == 2

Cells(h) == (1..h) \X (1..h)

\* Binary one-pixel objects and a plane with pairwise distinct intensities.
OneHot(h, cell) == [r \in 1..h |-> [c \in 1..h |->
                        IF <<r, c>> = cell THEN ROne ELSE RZero]]
Ramp(h, k) == [r \in 1..h |-> [c \in 1..h |-> RInt(k * ((r - 1) * h + c))]]

\* Objects of edge h for a batch of B rows: 1-channel one-hot objects (row n
\* lights the cell rotated by n - 1) and a 3-channel ramp.
WarpObjects(h, B) ==
    { [n \in 1..B |-> << OneHot(h, <<((cell[1] + n - 2) % h) + 1, cell[2]>>) >>]
        : cell \in Cells(h) }
    \cup { [n \in 1..B |-> <<Ramp(h, n), Ramp(h, n + 1), Ramp(h, n + 2)>>] }

WarpTrans == {RInt(-1), RZero, Rat(1, 2)}
WarpScales(hin, hout) == {RZero, RInt(-1), Rat(hout, hin)}

InitWarp ==
    \E hin \in 1..MaxInEdge, hout \in 1..MaxOutEdge,
       B \in 1..MaxBatch, Bz \in 1..MaxBatch :
      \E x \in WarpObjects(hin, B), s \in WarpScales(hin, hout),
         tx \in WarpTrans, ty \in WarpTrans :
        /\ st = [input_shape |-> <<hin, hin>>, output_shape |-> <<hout, hout>>]
        /\ w_x = x
        /\ w_z = [b \in 1..Bz |-> <<s, tx, ty>>]      \* z_where.repeat(Bz, 1)
        /\ w_fwd = None
        /\ w_inv = None
        /\ IdlePose /\ IdleBox

\* out = spatial_transf.forward(obj, z_where)
Forward ==
    /\ w_fwd.st = "none"
    /\ w_fwd' = SpatialTransformer_forward(st, w_x, w_z)
    /\ UNCHANGED <<st, w_x, w_z, w_inv, pose_vars, box_vars>>

\* out = spatial_transf.inverse(img, z_where), img the canvas forward returned
Inverse ==
    /\ w_fwd.st = "ok"
    /\ w_inv.st = "none"
    /\ w_inv' = SpatialTransformer_inverse(st, w_fwd.val, w_z)
    /\ UNCHANGED <<st, w_x, w_z, w_fwd, pose_vars, box_vars>>

NextWarp == Forward \/ Inverse

SpecWarp == InitWarp /\ [][NextWarp]_vars


(***************************************************************************)
(* Properties of the warp (SpecWarp).                                      *)
(***************************************************************************)
SameBatch == Len(w_x) = Len(w_z)
ZeroScale == \E b \in DOMAIN w_z : w_z[b][1] = RZero

\* Every pose row has s = Hout/Hin = Wout/Win.
RatioScale ==
    \A b \in DOMAIN w_z :
        /\ w_z[b][1] = Rat(st.output_shape[1], st.input_shape[1])
        /\ w_z[b][1] = Rat(st.output_shape[2], st.input_shape[2])

\* Canvas pixel p reads object pixel p - d with d = (nout - nin)/2 - t*nin/2:
\* the translation t is pixel-aligned and keeps the object inside the canvas
\* when d is an integer of 0..nout - nin.
PixelOffset(t, nin, nout) == RSub(Rat(nout - nin, 2), RMul(t, Rat(nin, 2)))
AlignedInside(t, nin, nout) ==
    LET d == PixelOffset(t, nin, nout)
    IN  RIsInt(d) /\ 0 <= d[1] /\ d[1] <= nout - nin
AlignedPose ==
    \A b \in DOMAIN w_z :
        /\ AlignedInside(w_z[b][2], st.input_shape[2], st.output_shape[2])
        /\ AlignedInside(w_z[b][3], st.input_shape[1], st.output_shape[1])

C3_ForwardRejectsMismatchAndZeroScale ==
    (w_fwd.st # "none" /\ (~SameBatch \/ ZeroScale)) => w_fwd.st = "error"

\* C3 (amended): forward is rejected exactly when the batch sizes differ; a
\* pose with s = 0 is not rejected: forward returns an image of the output
\* shape in which every channel of that batch row is constant.
C3_ForwardRejectsMismatchOnly ==
    w_fwd.st # "none" =>
        /\ w_fwd.st = "error" <=> ~SameBatch
        /\ w_fwd.st = "ok" =>
            \A n \in DOMAIN w_z : w_z[n][1] = RZero =>
                \A c \in DOMAIN w_fwd.val[n] :
                    /\ Len(w_fwd.val[n][c]) = st.output_shape[1]
                    /\ \A i \in 1..st.output_shape[1] :
                        /\ Len(w_fwd.val[n][c][i]) = st.output_shape[2]
                        /\ \A j \in 1..st.output_shape[2] :
                            w_fwd.val[n][c][i][j] = w_fwd.val[n][c][1][1]

C3_Witness ==
    /\ w_fwd.st = "ok" /\ ZeroScale
    /\ st.output_shape[1] > 1
    /\ \E n \in DOMAIN w_x : \E c \in DOMAIN w_x[n] :
          w_fwd.val[n][c][1][1] # RZero

C3_WitnessMismatch == w_fwd.st = "error" /\ ~SameBatch


(***************************************************************************)
(* SpecPose: the pose algebra on one pose, z_where = tensor([[s, x, y]]):  *)
(* inversion, the affine maps of a pose and of its inverse applied to a    *)
(* point, and the pixel rectangle of the pose.                             *)
(***************************************************************************)
Fractions(lo, hi) == {Rat(n, d) : n \in lo..hi, d \in 1..MaxDen}
PoseScales == Fractions(-MaxNum, MaxNum) \ {RZero}
PoseTrans == Fractions(-MaxNum, MaxNum)

\* The centres of the four corner pixels of a MaxEdge x MaxEdge grid, and of
\* one inner pixel.
PosePoints ==
    {<<BaseCoord(p, MaxEdge), BaseCoord(q, MaxEdge)>> :
        p \in {0, MaxEdge - 1}, q \in {0, 1, MaxEdge - 1}}

InitPose ==
    /\ \E s \in PoseScales, x \in PoseTrans, y \in PoseTrans : p_z = <<<<s, x, y>>>>
    /\ p_out = [op |-> "none"]
    /\ IdleWarp /\ IdleBox

\* z_where_inv = invert_z_where(z_where)
CallInvert ==
    /\ p_out.op = "none"
    /\ p_out' = [op |-> "invert", inv |-> invert_z_where(p_z)]
    /\ UNCHANGED <<p_z, warp_vars, box_vars>>

\* invert_z_where(invert_z_where(z_where))
CallInvertAgain ==
    /\ p_out.op = "invert"
    /\ p_out' = [op |-> "invert2", inv |-> p_out.inv,
                 inv2 |-> invert_z_where(p_out.inv)]
    /\ UNCHANGED <<p_z, warp_vars, box_vars>>

\* The matrices expand_z_where gives for the pose and for its inverse,
\* applied one after the other to a point, in both orders.
CallCompose ==
    /\ p_out.op = "invert"
    /\ \E pt \in PosePoints :
        LET theta == expand_z_where(p_z)[1]
            theta_inv == expand_z_where(p_out.inv)[1]
        IN  p_out' = [op |-> "compose", inv |-> p_out.inv, pt |-> pt,
                      theta |-> theta, theta_inv |-> theta_inv,
                      inv_after |-> AffineApply(theta_inv, AffineApply(theta, pt)),
                      inv_before |-> AffineApply(theta, AffineApply(theta_inv, pt))]
    /\ UNCHANGED <<p_z, warp_vars, box_vars>>

\* _bounding_box(z_where, x_size, margin=0) and _bounding_box(z_where, x_size)
\* (margin=1), rounded, and the unrounded margin-0 box.
CallBoundingBox ==
    /\ p_out.op = "none"
    /\ \E edge \in 1..MaxEdge :
        p_out' = [op |-> "box", edge |-> edge,
                  raw0 |-> bounding_box(p_z, edge, FALSE, 0),
                  m0 |-> bounding_box(p_z, edge, TRUE, 0),
                  m1 |-> bounding_box(p_z, edge, TRUE, 1)]
    /\ UNCHANGED <<p_z, warp_vars, box_vars>>

NextPose == CallInvert \/ CallInvertAgain \/ CallCompose \/ CallBoundingBox

SpecPose == InitPose /\ [][NextPose]_vars

(***************************************************************************)
(* Properties of the pose algebra (SpecPose).                              *)
(***************************************************************************)
PoseS == p_z[1][1]
PoseX == p_z[1][2]
PoseY == p_z[1][3]

\* C2: for s # 0, invert_z_where returns (1/s, -x/s, -y/s); the affine map of
\* the inverse pose composed with the affine map [[s,0,x],[0,s,y]] of the
\* pose fixes every point, in either order; inverting twice gives the pose.
C2_InversionCorrect ==
    /\ p_out.op \in {"invert", "invert2", "compose"} =>
          /\ Len(p_out.inv) = 1
          /\ RMul(p_out.inv[1][1], PoseS) = ROne
          /\ RAdd(RMul(p_out.inv[1][2], PoseS), PoseX) = RZero
          /\ RAdd(RMul(p_out.inv[1][3], PoseS), PoseY) = RZero
    /\ p_out.op = "compose" =>
          /\ p_out.theta = << <<PoseS, RZero, PoseX>>, <<RZero, PoseS, PoseY>> >>
          /\ p_out.inv_after = p_out.pt
          /\ p_out.inv_before = p_out.pt
    /\ p_out.op = "invert2" => p_out.inv2 = p_z

C2_Witness ==
    /\ p_out.op = "compose"
    /\ PoseS \notin {ROne, RInt(-1)} /\ PoseX # RZero /\ PoseY # RZero
    /\ PoseX # PoseY
    /\ p_out.inv_after = p_out.pt

\* C8, on the poses with s > 0 it covers: for every canvas edge the rounded
\* box has x1 <= x2 and y1 <= y2, the margin-1 box is the margin-0 box grown
\* by exactly one pixel on each side, and the unmargined box has width edge/s
\* and centre edge/2 - (x/s) * edge/2 (resp. y).
C8_MarginOnePixelLarger ==
    (p_out.op = "box" /\ RLt(RZero, PoseS)) =>
        LET b0 == p_out.m0.val
            b1 == p_out.m1.val
            r0 == p_out.raw0.val
            e == RInt(p_out.edge)
            half == RDiv(e, RInt(2))
        IN  /\ p_out.m0.st = "ok" /\ p_out.m1.st = "ok"
            /\ b0[1] <= b0[2] /\ b0[3] <= b0[4]
            /\ b1[1] <= b1[2] /\ b1[3] <= b1[4]
            /\ b1 = <<b0[1] - 1, b0[2] + 1, b0[3] - 1, b0[4] + 1>>
            /\ RSub(r0[2], r0[1]) = RDiv(e, PoseS)
            /\ RDiv(RAdd(r0[1], r0[2]), RInt(2))
                  = RSub(half, RMul(RDiv(PoseX, PoseS), half))
            /\ RDiv(RAdd(r0[3], r0[4]), RInt(2))
                  = RSub(half, RMul(RDiv(PoseY, PoseS), half))


(***************************************************************************)
(* Spec: a caller holds an image, calls one of the three renderer          *)
(* operations on it, may apply the same call again to what it returned,    *)
(* and may write into the returned array.                                  *)
(***************************************************************************)
MaxPoses == 4
MaxCalls == 2

\* Input intensities are 2, 3 or 4: no colour component (0 or 1) and not a
\* value the caller writes, so every changed value shows.
Intensity(n, c, r, k) == 2 + ((n + c + r + k) % 3)
WrittenValues == {9}

Plane3(n, C, edge) ==
    [c \in 1..C |-> [r \in 1..edge |-> [k \in 1..edge |-> Intensity(n, c, r, k)]]]

ArrayKinds == {<<"ndarray", "cpu">>, <<"tensor", "cpu">>, <<"tensor", "cuda">>}

\* Single images of the larger edge come as ndarray, CPU tensor and CUDA
\* tensor (rank 3) or as ndarray and CPU tensor (rank 4, N >= 1); images of
\* the smaller edge as rank-3 ndarrays.
InputImages ==
    {[id |-> 1, kind |-> kd[1], dev |-> kd[2], rank |-> 3, px |-> Plane3(1, C, e[1])]
        : kd \in ArrayKinds, C \in {1, 3}, e \in {<<MaxEdge>>}}
    \cup
    {[id |-> 1, kind |-> "ndarray", dev |-> "cpu", rank |-> 3,
      px |-> Plane3(1, C, MaxEdge - 1)] : C \in {1, 3}}
    \cup
    {[id |-> 1, kind |-> kd[1], dev |-> kd[2], rank |-> 4,
      px |-> [n \in 1..N |-> Plane3(n, C, MaxEdge)]]
        : kd \in ArrayKinds \ {<<"tensor", "cuda">>}, C \in {1, 3}, N \in 1..MaxBatch}

BoxScales == {Rat(1, 2), ROne, RInt(2), RInt(-1), RInt(-2)}
BoxTrans == {RInt(-2), RInt(-1), RZero, Rat(1, 2), RInt(2)}
Colors == {DefaultColor, <<0, 1, 1>>}

\* The poses that pose lists are made of: a box around the canvas centre, a
\* box over a canvas corner, a box off the canvas.
ListPoses == << <<RInt(2), RZero, RZero>>,
                <<RInt(2), ROne, RInt(-1)>>,
                <<Rat(1, 2), RInt(2), RInt(-1)>> >>

\* Lists of P poses: one pose repeated (step 0, as z_where.repeat does) or
\* the poses taken in turn from some start (step 1).
PoseLists ==
    {[i \in 1..P |-> ListPoses[((start + (i - 1) * step) % Len(ListPoses)) + 1]]
        : P \in 0..MaxPoses, start \in 0..(Len(ListPoses) - 1), step \in {0, 1}}

\* Object counts tried with P poses: 0 .. P + 1, and 3/2 (rounded to 2).
Counts(P) == {RInt(k) : k \in 0..(P + 1)} \cup {Rat(3, 2)}

Init ==
    /\ b_img \in InputImages
    /\ b_call = [op |-> "none"]
    /\ b_out = None
    /\ b_calls = 0
    /\ b_written = FALSE
    /\ IdleWarp /\ IdlePose

\* What the call recorded in c returns on image img.
Apply(c, img) ==
    CASE c.op = "add_bounding_box" -> add_bounding_box(img, c.z_where, c.color)
      [] c.op = "add_bounding_boxes" ->
            add_bounding_boxes(img, c.z_wheres, c.color, c.n_obj)
      [] c.op = "batch_add_bounding_boxes" ->
            batch_add_bounding_boxes(img, c.z_wheres, c.n_obj)

Called(c) ==
    /\ b_call' = [c EXCEPT !.img = b_img]
    /\ b_out' = Apply(c, b_img)
    /\ b_calls' = 1
    /\ UNCHANGED <<b_img, b_written, warp_vars, pose_vars>>

\* add_bounding_box(img, z_where, color) with z_where of shape (1, 3)
CallAddBoundingBox ==
    /\ b_call.op = "none"
    /\ \E s \in BoxScales, x \in BoxTrans, y \in BoxTrans, color \in Colors :
          Called([op |-> "add_bounding_box", img |-> b_img,
                  z_where |-> <<<<s, x, y>>>>, color |-> color])

\* add_bounding_boxes(img, z_wheres, color, n_obj) with z_wheres of shape
\* (1, P, 3) or (P, 3)
CallAddBoundingBoxes ==
    /\ b_call.op = "none"
    /\ \E rows \in PoseLists, zrank \in {2, 3} :
        \E n_obj \in Counts(Len(rows)) :
          Called([op |-> "add_bounding_boxes", img |-> b_img,
                  z_wheres |-> [rank |-> zrank,
                                rows |-> IF zrank = 3 THEN <<rows>> ELSE rows],
                  color |-> DefaultColor, n_obj |-> n_obj])

\* batch_add_bounding_boxes(imgs, z_wheres, n_obj): z_wheres of shape
\* (Nz, P, 3), image j getting the pose list rotated by j, and n_obj[j] = k.
CallBatchAddBoundingBoxes ==
    /\ b_call.op = "none"
    /\ \E rows \in PoseLists, Nz \in 1..MaxBatch :
        \E k \in 0..(Len(rows) + 1) :
          Called([op |-> "batch_add_bounding_boxes", img |-> b_img,
                  z_wheres |-> [rank |-> 3,
                                rows |-> [j \in 1..Nz |->
                                    [i \in 1..Len(rows) |->
                                        rows[((i + j - 2) % Len(rows)) + 1]]]],
                  color |-> DefaultColor,
                  n_obj |-> [j \in 1..Nz |-> RInt(k)]])

\* The caller applies the same call to the array the call returned.
CallAgain ==
    /\ b_out.st = "ok"
    /\ b_calls < MaxCalls
    /\ ~b_written
    /\ b_img' = b_out.val
    /\ b_call' = [b_call EXCEPT !.img = b_out.val]
    /\ b_out' = Apply(b_call, b_out.val)
    /\ b_calls' = b_calls + 1
    /\ UNCHANGED <<b_written, warp_vars, pose_vars>>

\* px with its first value replaced by v.
WriteFirst(a, v) ==
    IF a.rank = 3 THEN [a EXCEPT !.px[1][1][1] = v]
    ELSE [a EXCEPT !.px[1][1][1][1] = v]

\* The caller writes into the returned array; an array sharing its storage
\* changes with it.
WriteOut ==
    /\ b_out.st = "ok"
    /\ ~b_written
    /\ \E v \in WrittenValues :
        /\ b_out' = Ok(WriteFirst(b_out.val, v))
        /\ b_img' = IF b_img.id = b_out.val.id THEN WriteFirst(b_img, v) ELSE b_img
    /\ b_written' = TRUE
    /\ UNCHANGED <<b_call, b_calls, warp_vars, pose_vars>>

Next ==
    \/ CallAddBoundingBox
    \/ CallAddBoundingBoxes
    \/ CallBatchAddBoundingBoxes
    \/ CallAgain
    \/ WriteOut

Spec == Init /\ [][Next]_vars


(***************************************************************************)
(* Properties of the box renderer (Spec).                                  *)
(***************************************************************************)
Px4(a) == IF a.rank = 3 THEN <<a.px>> ELSE a.px
EdgeOf(a) == Len(Px4(a)[1][1])

\* The 3-channel expansion of an image: a single channel three times over.
Expanded(px4) ==
    [n \in 1..Len(px4) |->
        IF Len(px4[n]) = 1 THEN <<px4[n][1], px4[n][1], px4[n][1]>> ELSE px4[n]]

\* An image the renderer documents as valid: rank 3, or rank 4 with a first
\* dimension of 1; 1 or 3 channels.
ValidImage(a) == Len(Px4(a)) = 1 /\ Len(Px4(a)[1]) \in {1, 3}

Fresh == b_out.st = "ok" /\ ~b_written     \* a result as the call returned it

\* The rounded box of the one pose of an add_bounding_box call.
CallBox == bounding_box(b_call.z_where, EdgeOf(b_call.img), TRUE, 1).val

\* The pose rows of an add_bounding_boxes call and its rounded count.
CallRows ==
    IF b_call.z_wheres.rank = 3 THEN b_call.z_wheres.rows[1] ELSE b_call.z_wheres.rows
CallCount == PyRound(b_call.n_obj)

\* add_bounding_box applied with poses 1 .. k of rows, in index order, to px4.
RECURSIVE DrawnInOrder(_, _, _, _)
DrawnInOrder(px4, rows, color, k) ==
    IF k = 0 THEN Expanded(px4)
    ELSE Px4(add_bounding_box(
                [id |-> 1, kind |-> "ndarray", dev |-> "cpu", rank |-> 4,
                 px |-> DrawnInOrder(px4, rows, color, k - 1)],
                <<rows[k]>>, color).val)

\* C4: with P valid poses given as (1, P, 3) or (P, 3) and a valid image,
\* add_bounding_boxes succeeds for every count 0 <= n_obj <= P and returns
\* add_bounding_box applied with poses 0 .. n_obj - 1 in index order to the
\* 3-channel expansion of the input, and is rejected when n_obj > P; the same
\* for every image j of batch_add_bounding_boxes.
C4_DrawsFirstNObjInOrder ==
    /\ (/\ b_call.op = "add_bounding_boxes" /\ b_calls = 1 /\ ~b_written
        /\ ValidImage(b_call.img) /\ RIsInt(b_call.n_obj) /\ CallCount >= 0) =>
          IF CallCount <= Len(CallRows)
          THEN /\ b_out.st = "ok"
               /\ Px4(b_out.val) =
                    DrawnInOrder(Px4(b_call.img), CallRows, b_call.color, CallCount)
          ELSE b_out.st = "error"
    /\ (/\ b_call.op = "batch_add_bounding_boxes" /\ b_calls = 1 /\ ~b_written
        /\ b_call.img.rank = 4 /\ b_call.img.kind = "tensor"
        /\ Len(b_call.z_wheres.rows) = Len(b_call.img.px)) =>
          LET P == Len(b_call.z_wheres.rows[1])
              k == PyRound(b_call.n_obj[1])
          IN  IF k <= P
              THEN /\ b_out.st = "ok"
                   /\ \A j \in 1..Len(b_call.img.px) :
                        <<b_out.val.px[j]>> =
                            DrawnInOrder(<<b_call.img.px[j]>>, b_call.z_wheres.rows[j],
                                         b_call.color, k)
              ELSE b_out.st = "error"

\* The box lies entirely outside 0 .. edge - 1 on at least one axis.
OffCanvas(box, edge) ==
    box[2] < 0 \/ box[1] > edge - 1 \/ box[4] < 0 \/ box[3] > edge - 1

\* C5: when the rounded box lies entirely outside the canvas on at least one
\* axis, add_bounding_box raises no error and changes no pixel: the output is
\* the 3-channel expansion of the input.
C5_OffCanvasBoxDrawsNothing ==
    (/\ b_call.op = "add_bounding_box" /\ b_calls = 1 /\ ~b_written
     /\ ValidImage(b_call.img)
     /\ OffCanvas(CallBox, EdgeOf(b_call.img))) =>
        /\ b_out.st = "ok"
        /\ Px4(b_out.val) = Expanded(Px4(b_call.img))

\* C6: after add_bounding_box and add_bounding_boxes (every n_obj >= 0) the
\* input array is unchanged and the returned array shares no storage with it,
\* also after the caller has written into the returned array.
C6_NoMutationNoAliasing ==
    (b_call.op \in {"add_bounding_box", "add_bounding_boxes"} /\ b_out.st = "ok") =>
        /\ b_out.val.id # b_img.id
        /\ b_img.px = b_call.img.px

\* C7: every result of the three operations has 3 channels and the rank and
\* spatial shape of the input; a 1-channel input is widened by replicating
\* its channel (every output value is the input's or the colour's, and all of
\* them the input's when nothing is drawn); add_bounding_box succeeds on every
\* valid image, also on one that was annotated before.
C7_ThreeChannelsSameShape ==
    /\ Fresh =>
        LET in == b_call.img
            out == b_out.val
            cd == IF in.rank = 3 THEN 1 ELSE 2
        IN  /\ out.rank = in.rank
            /\ Shape(out) = [Shape(in) EXCEPT ![cd] = 3]
            /\ \A n \in 1..Len(Px4(out)) : \A c \in 1..3 :
                 \A r \in 1..EdgeOf(in) : \A k \in 1..EdgeOf(in) :
                    Px4(out)[n][c][r][k] \in
                        {b_call.color[c], Expanded(Px4(in))[n][c][r][k]}
            /\ (b_call.op = "add_bounding_boxes" /\ CallCount <= 0) =>
                    Px4(out) = Expanded(Px4(in))
    /\ (b_call.op = "add_bounding_box" /\ ValidImage(b_call.img)) => b_out.st = "ok"

C7_Witness ==
    /\ Fresh /\ b_calls = 2
    /\ b_call.op = "add_bounding_boxes" /\ CallCount >= 2
    /\ b_img.kind = "tensor"
    /\ Shape(b_call.img) = <<3, MaxEdge, MaxEdge>>
    /\ Shape(b_out.val) = <<3, MaxEdge, MaxEdge>>
    /\ \E r \in 1..MaxEdge : \E k \in 1..MaxEdge :
          \A c \in 1..3 : b_out.val.px[c][r][k] = b_call.color[c]

C7_WitnessWidened ==
    /\ Fresh /\ b_calls = 1 /\ b_call.op = "add_bounding_boxes" /\ CallCount = 0
    /\ Shape(b_call.img) = <<1, 1, MaxEdge, MaxEdge>>
    /\ Shape(b_out.val) = <<1, 3, MaxEdge, MaxEdge>>

\* The outline C9 describes: rows y1 and y2 - 1 over columns x1 .. x2 - 1 and
\* columns x1 and x2 - 1 over rows y1 .. y2 - 1, inside the canvas.
OutlineInCanvas(box, edge) ==
    {cell \in (0..(edge - 1)) \X (0..(edge - 1)) :
        \/ cell[1] \in {box[3], box[4] - 1} /\ box[1] <= cell[2] /\ cell[2] <= box[2] - 1
        \/ cell[2] \in {box[1], box[2] - 1} /\ box[3] <= cell[1] /\ cell[1] <= box[4] - 1}

Overlaps(box, edge) ==
    /\ box[1] <= edge - 1 /\ box[2] - 1 >= 0 /\ box[1] <= box[2] - 1
    /\ box[3] <= edge - 1 /\ box[4] - 1 >= 0 /\ box[3] <= box[4] - 1

\* C9: for a box that overlaps the canvas add_bounding_box sets to the colour
\* exactly the in-canvas pixels of the four border lines (the last row and
\* column included when the box extends past the canvas) and changes no other.
C9_ExactlyOutlineColoured ==
    (/\ b_call.op = "add_bounding_box" /\ b_calls = 1 /\ Fresh
     /\ Overlaps(CallBox, EdgeOf(b_call.img))) =>
        LET edge == EdgeOf(b_call.img)
            before == Expanded(Px4(b_call.img))[1]
            after == Px4(b_out.val)[1]
            outline == OutlineInCanvas(CallBox, edge)
        IN  \A r \in 0..(edge - 1) : \A k \in 0..(edge - 1) : \A c \in 1..3 :
                after[c][r + 1][k + 1] =
                    IF <<r, k>> \in outline THEN b_call.color[c]
                    ELSE before[c][r + 1][k + 1]

\* rows with entries i and j exchanged.
Swapped(rows, i, j) ==
    [k \in 1..Len(rows) |-> IF k = i THEN rows[j] ELSE IF k = j THEN rows[i] ELSE rows[k]]

\* C10: the result of add_bounding_boxes does not depend on the order of the
\* first n_obj poses (exchanging any two of them gives the same image), and
\* drawing a pose again changes nothing: add_bounding_box with a pose already
\* drawn, and a second add_bounding_box with the same pose and colour, return
\* the image they were given.
C10_OrderAndRepeatIrrelevant ==
    /\ (b_call.op = "add_bounding_boxes" /\ Fresh /\ b_calls = 1) =>
        /\ \A i \in 1..CallCount : \A j \in (i + 1)..CallCount :
              LET again == add_bounding_boxes(
                              b_call.img,
                              [rank |-> b_call.z_wheres.rank,
                               rows |-> IF b_call.z_wheres.rank = 3
                                        THEN <<Swapped(CallRows, i, j)>>
                                        ELSE Swapped(CallRows, i, j)],
                              b_call.color, b_call.n_obj)
              IN  again.st = "ok" /\ Px4(again.val) = Px4(b_out.val)
        /\ \A i \in 1..CallCount :
              Px4(add_bounding_box(b_out.val, <<CallRows[i]>>, b_call.color).val)
                  = Px4(b_out.val)
    /\ (b_call.op = "add_bounding_box" /\ Fresh /\ b_calls = 2) =>
          Px4(b_out.val) = Px4(b_call.img)

C10_Witness ==
    /\ b_call.op = "add_bounding_boxes" /\ Fresh /\ b_calls = 1
    /\ CallCount = 3
    /\ CallRows[1] # CallRows[2] /\ CallRows[2] # CallRows[3]
    /\ Px4(b_out.val) # Expanded(Px4(b_call.img))
    /\ Px4(b_out.val) #
          Px4(add_bounding_boxes(b_call.img, b_call.z_wheres, b_call.color, RInt(1)).val)

C10_WitnessRepeat ==
    /\ b_call.op = "add_bounding_box" /\ Fresh /\ b_calls = 2
    /\ Px4(b_out.val) = Px4(b_call.img)
    /\ \E c \in 1..3 : \E r \in 1..EdgeOf(b_img) : \E k \in 1..EdgeOf(b_img) :
          Px4(b_out.val)[1][c][r][k] = b_call.color[c]

=============================================================================
